---- MODULE Spec2Model ----
(***************************************************************************)
(* Agency router worker: keyword scoring, complexity assessment, the       *)
(* routing engine with its agent / skill-file registry, the two-tier       *)
(* routing cache, the audit log and the POST /api/route request flow.      *)
(*                                                                         *)
(* Strings the code inspects character by character (messages, keywords)   *)
(* are sequences of one-character strings.  Fractional numbers are fixed   *)
(* point: scores in 1/100, confidences before rounding in 1/1000000,       *)
(* rounded confidences and costs in 1/100, prices in 1/1000 per 1000       *)
(* tokens; IEEE-754 rounding error of the sums is not modelled.            *)
(***************************************************************************)
EXTENDS Integers, Sequences, FiniteSets, TLC


(***************************************************************************)
(* keyword-matcher.ts: KEYWORD_SETS, one keyword group (domain) per agent  *)
(***************************************************************************)

KW_codegen == <<
    <<"i","m","p","l","e","m","e","n","t">>,
    <<"b","u","i","l","d">>,
    <<"c","o","d","e">>,
    <<"d","e","v","e","l","o","p">>,
    <<"c","r","e","a","t","e">>,
    <<"w","r","i","t","e">>,
    <<"f","u","n","c","t","i","o","n">>,
    <<"m","e","t","h","o","d">>,
    <<"c","l","a","s","s">>,
    <<"c","o","m","p","o","n","e","n","t">>,
    <<"a","p","i">>,
    <<"e","n","d","p","o","i","n","t">>,
    <<"r","o","u","t","e">>,
    <<"d","e","b","u","g">>,
    <<"f","i","x">>,
    <<"e","r","r","o","r">>,
    <<"b","u","g">>,
    <<"o","p","t","i","m","i","z","e">>,
    <<"r","e","f","a","c","t","o","r">>,
    <<"p","e","r","f","o","r","m","a","n","c","e">>,
    <<"t","e","s","t">>,
    <<"u","n","i","t"," ","t","e","s","t">>,
    <<"i","n","t","e","g","r","a","t","i","o","n"," ","t","e","s","t">>,
    <<"d","e","p","l","o","y">>,
    <<"r","e","l","e","a","s","e">>,
    <<"s","e","t","u","p">>,
    <<"c","o","n","f","i","g","u","r","e">>,
    <<"i","n","s","t","a","l","l","a","t","i","o","n">>,
    <<"l","i","b","r","a","r","y">>,
    <<"f","r","a","m","e","w","o","r","k">>,
    <<"j","a","v","a","s","c","r","i","p","t">>,
    <<"t","y","p","e","s","c","r","i","p","t">>,
    <<"p","y","t","h","o","n">>,
    <<"n","o","d","e",".","j","s">>,
    <<"r","e","a","c","t">>,
    <<"v","u","e">>,
    <<"a","n","g","u","l","a","r">>,
    <<"r","u","s","t">>,
    <<"g","o">>,
    <<"j","a","v","a">>,
    <<"d","a","t","a","b","a","s","e">>,
    <<"s","q","l">>,
    <<"q","u","e","r","y">> >>

KW_planning == <<
    <<"p","l","a","n">>,
    <<"s","t","r","a","t","e","g","y">>,
    <<"r","o","a","d","m","a","p">>,
    <<"t","i","m","e","l","i","n","e">>,
    <<"p","r","o","j","e","c","t">>,
    <<"w","o","r","k","f","l","o","w">>,
    <<"p","r","o","c","e","s","s">>,
    <<"a","r","c","h","i","t","e","c","t","u","r","e">>,
    <<"d","e","s","i","g","n">>,
    <<"d","e","s","i","g","n"," ","d","o","c","u","m","e","n","t">>,
    <<"p","r","o","p","o","s","a","l">>,
    <<"r","e","q","u","i","r","e","m","e","n","t">>,
    <<"s","c","o","p","e">>,
    <<"m","i","l","e","s","t","o","n","e">>,
    <<"d","e","a","d","l","i","n","e">>,
    <<"g","o","a","l">>,
    <<"o","b","j","e","c","t","i","v","e">>,
    <<"t","a","s","k">>,
    <<"d","e","l","i","v","e","r","a","b","l","e">>,
    <<"s","t","a","k","e","h","o","l","d","e","r">>,
    <<"t","e","a","m">>,
    <<"r","e","s","o","u","r","c","e">>,
    <<"b","u","d","g","e","t">>,
    <<"c","o","s","t">>,
    <<"e","s","t","i","m","a","t","e">>,
    <<"s","c","h","e","d","u","l","e">>,
    <<"p","h","a","s","e">>,
    <<"s","p","r","i","n","t">>,
    <<"e","p","i","c">>,
    <<"u","s","e","r"," ","s","t","o","r","y">>,
    <<"a","c","c","e","p","t","a","n","c","e"," ","c","r","i","t","e","r","i","a">>,
    <<"r","i","s","k">>,
    <<"c","o","n","s","t","r","a","i","n","t">>,
    <<"d","e","p","e","n","d","e","n","c","y">>,
    <<"c","o","m","m","u","n","i","c","a","t","i","o","n">>,
    <<"r","e","v","i","e","w">>,
    <<"a","p","p","r","o","v","a","l">>,
    <<"g","o","v","e","r","n","a","n","c","e">> >>

KW_security == <<
    <<"s","e","c","u","r","i","t","y">>,
    <<"v","u","l","n","e","r","a","b","i","l","i","t","y">>,
    <<"e","x","p","l","o","i","t">>,
    <<"a","t","t","a","c","k">>,
    <<"t","h","r","e","a","t">>,
    <<"r","i","s","k">>,
    <<"p","e","n","e","t","r","a","t","i","o","n"," ","t","e","s","t">>,
    <<"a","u","d","i","t">>,
    <<"c","o","m","p","l","i","a","n","c","e">>,
    <<"e","n","c","r","y","p","t","i","o","n">>,
    <<"a","u","t","h","e","n","t","i","c","a","t","i","o","n">>,
    <<"a","u","t","h","o","r","i","z","a","t","i","o","n">>,
    <<"p","e","r","m","i","s","s","i","o","n">>,
    <<"a","c","c","e","s","s"," ","c","o","n","t","r","o","l">>,
    <<"s","e","n","s","i","t","i","v","e"," ","d","a","t","a">>,
    <<"p","r","i","v","a","c","y">>,
    <<"b","r","e","a","c","h">>,
    <<"s","e","c","u","r","e">>,
    <<"s","e","c","u","r","e"," ","c","o","d","i","n","g">>,
    <<"o","w","a","s","p">>,
    <<"c","w","e">>,
    <<"c","v","e">>,
    <<"m","a","l","w","a","r","e">>,
    <<"p","h","i","s","h","i","n","g">>,
    <<"i","n","j","e","c","t","i","o","n">>,
    <<"x","s","s">>,
    <<"c","s","r","f">>,
    <<"t","o","k","e","n">>,
    <<"j","w","t">>,
    <<"a","p","i"," ","k","e","y">>,
    <<"c","r","e","d","e","n","t","i","a","l">>,
    <<"s","e","c","r","e","t">>,
    <<"t","l","s">>,
    <<"s","s","l">>,
    <<"c","e","r","t","i","f","i","c","a","t","e">>,
    <<"f","i","r","e","w","a","l","l">>,
    <<"d","d","o","s">>,
    <<"i","n","t","r","u","s","i","o","n">>,
    <<"f","o","r","e","n","s","i","c">>,
    <<"i","n","c","i","d","e","n","t"," ","r","e","s","p","o","n","s","e">>,
    <<"h","a","r","d","e","n","i","n","g">>,
    <<"d","e","f","e","n","s","e">> >>

KW_infrastructure == <<
    <<"i","n","f","r","a","s","t","r","u","c","t","u","r","e">>,
    <<"d","e","p","l","o","y">>,
    <<"c","l","o","u","d">>,
    <<"a","w","s">>,
    <<"a","z","u","r","e">>,
    <<"g","c","p">>,
    <<"c","l","o","u","d","f","l","a","r","e">>,
    <<"k","u","b","e","r","n","e","t","e","s">>,
    <<"d","o","c","k","e","r">>,
    <<"c","o","n","t","a","i","n","e","r">>,
    <<"c","i","/","c","d">>,
    <<"g","i","t","h","u","b"," ","a","c","t","i","o","n","s">>,
    <<"j","e","n","k","i","n","s">>,
    <<"g","i","t","l","a","b">>,
    <<"d","e","v","o","p","s">>,
    <<"t","e","r","r","a","f","o","r","m">>,
    <<"i","n","f","r","a","s","t","r","u","c","t","u","r","e"," ","a","s"," ","c","o","d","e">>,
    <<"m","o","n","i","t","o","r","i","n","g">>,
    <<"l","o","g","g","i","n","g">>,
    <<"o","b","s","e","r","v","a","b","i","l","i","t","y">>,
    <<"m","e","t","r","i","c","s">>,
    <<"a","l","e","r","t","i","n","g">>,
    <<"u","p","t","i","m","e">>,
    <<"s","l","a">>,
    <<"d","i","s","a","s","t","e","r"," ","r","e","c","o","v","e","r","y">>,
    <<"b","a","c","k","u","p">>,
    <<"l","o","a","d"," ","b","a","l","a","n","c","e","r">>,
    <<"c","d","n">>,
    <<"d","a","t","a","b","a","s","e">>,
    <<"c","a","c","h","e">>,
    <<"q","u","e","u","e">>,
    <<"m","e","s","s","a","g","e"," ","b","r","o","k","e","r">>,
    <<"a","p","i"," ","g","a","t","e","w","a","y">>,
    <<"r","e","v","e","r","s","e"," ","p","r","o","x","y">>,
    <<"s","s","l">>,
    <<"c","e","r","t","i","f","i","c","a","t","e">>,
    <<"d","n","s">>,
    <<"d","o","m","a","i","n">>,
    <<"n","e","t","w","o","r","k">>,
    <<"s","c","a","l","i","n","g">>,
    <<"a","u","t","o","-","s","c","a","l","i","n","g">> >>

compoundPatterns == <<
    <<"d","e","s","i","g","n"," ","d","o","c","u","m","e","n","t">>,
    <<"u","n","i","t"," ","t","e","s","t">>,
    <<"i","n","t","e","g","r","a","t","i","o","n"," ","t","e","s","t">>,
    <<"u","s","e","r"," ","s","t","o","r","y">>,
    <<"a","c","c","e","p","t","a","n","c","e"," ","c","r","i","t","e","r","i","a">>,
    <<"a","p","i"," ","g","a","t","e","w","a","y">>,
    <<"r","e","v","e","r","s","e"," ","p","r","o","x","y">>,
    <<"l","o","a","d"," ","b","a","l","a","n","c","e","r">>,
    <<"m","e","s","s","a","g","e"," ","b","r","o","k","e","r">>,
    <<"d","i","s","a","s","t","e","r"," ","r","e","c","o","v","e","r","y">>,
    <<"a","u","t","o"," ","s","c","a","l","i","n","g">>,
    <<"i","n","f","r","a","s","t","r","u","c","t","u","r","e"," ","a","s"," ","c","o","d","e">>,
    <<"c","i","/","c","d">>,
    <<"g","i","t","h","u","b"," ","a","c","t","i","o","n","s">>,
    <<"p","e","n","e","t","r","a","t","i","o","n"," ","t","e","s","t">>,
    <<"a","c","c","e","s","s"," ","c","o","n","t","r","o","l">>,
    <<"s","e","n","s","i","t","i","v","e"," ","d","a","t","a">>,
    <<"s","e","c","u","r","e"," ","c","o","d","i","n","g">>,
    <<"a","p","i"," ","k","e","y">>,
    <<"j","w","t"," ","t","o","k","e","n">>,
    <<"s","s","l"," ","c","e","r","t","i","f","i","c","a","t","e">>,
    <<"n","o","d","e",".","j","s">>,
    <<"s","q","l"," ","q","u","e","r","y">> >>

(***************************************************************************)
(* complexity-classifier.ts: COMPLEXITY_INDICATORS, topicKeywords          *)
(***************************************************************************)

COMPLEX_KEYWORDS == <<
    <<"d","e","s","i","g","n">>,
    <<"a","r","c","h","i","t","e","c","t">>,
    <<"o","p","t","i","m","i","z","e">>,
    <<"r","e","f","a","c","t","o","r">>,
    <<"m","i","g","r","a","t","e">>,
    <<"d","i","s","t","r","i","b","u","t","e","d">>,
    <<"p","e","r","f","o","r","m","a","n","c","e">>,
    <<"s","c","a","l","a","b","i","l","i","t","y">>,
    <<"s","e","c","u","r","i","t","y">>,
    <<"c","o","m","p","l","i","a","n","c","e">>,
    <<"m","u","l","t","i","-","s","t","e","p">>,
    <<"s","t","r","a","t","e","g","i","c">>,
    <<"c","o","m","p","r","e","h","e","n","s","i","v","e">>,
    <<"a","d","v","a","n","c","e","d">>,
    <<"c","u","s","t","o","m">> >>

MODERATE_KEYWORDS == <<
    <<"i","m","p","l","e","m","e","n","t">>,
    <<"i","n","t","e","g","r","a","t","e">>,
    <<"c","o","n","f","i","g","u","r","e">>,
    <<"d","e","b","u","g">>,
    <<"t","r","o","u","b","l","e","s","h","o","o","t">>,
    <<"m","o","d","i","f","y">>,
    <<"u","p","d","a","t","e">>,
    <<"i","m","p","r","o","v","e">>,
    <<"e","n","h","a","n","c","e">>,
    <<"a","d","d">>,
    <<"c","h","a","n","g","e">>,
    <<"c","o","n","v","e","r","t">>,
    <<"a","n","a","l","y","z","e">>,
    <<"r","e","v","i","e","w">> >>

topicKeywords == <<
    <<<<"r","e","a","c","t">>, <<"v","u","e">>, <<"a","n","g","u","l","a","r">>, <<"c","o","m","p","o","n","e","n","t">>, <<"u","i">>, <<"u","x">>>>,
    <<<<"n","o","d","e">>, <<"p","y","t","h","o","n">>, <<"a","p","i">>, <<"d","a","t","a","b","a","s","e">>, <<"s","e","r","v","e","r">>>>,
    <<<<"k","u","b","e","r","n","e","t","e","s">>, <<"d","o","c","k","e","r">>, <<"c","i","/","c","d">>, <<"d","e","p","l","o","y">>, <<"c","l","o","u","d">>>>,
    <<<<"s","e","c","u","r","i","t","y">>, <<"v","u","l","n","e","r","a","b","i","l","i","t","y">>, <<"e","n","c","r","y","p","t","i","o","n">>, <<"a","u","t","h">>>>,
    <<<<"s","q","l">>, <<"m","o","n","g","o","d","b">>, <<"p","o","s","t","g","r","e","s">>, <<"q","u","e","r","y">>, <<"s","c","h","e","m","a">>>> >>

CONSTRAINT_WORDS == <<
    <<"m","u","s","t">>,
    <<"s","h","o","u","l","d">>,
    <<"c","a","n","n","o","t">>,
    <<"d","o","n","'","t">>,
    <<"c","o","n","s","t","r","a","i","n","t">>,
    <<"r","e","q","u","i","r","e","m","e","n","t">> >>

\* the backquote character, which the lexer of string literals rejects
BACKTICK == "backquote"

CODE_SYNTAX == <<
    <<BACKTICK,BACKTICK,BACKTICK>>,
    <<"<">>,
    <<">">>,
    <<"{">>,
    <<"}">>,
    <<"[">>,
    <<"]">>,
    <<"=",">">>,
    <<";">> >>

(***************************************************************************)
(* The message texts requests are drawn from                               *)
(***************************************************************************)

\* ""
TextEmpty ==
    <<>>

\* "   "
TextBlank ==
    <<" "," "," ">>

\* "Fix the login bug"
TextFixBug ==
    <<"F","i","x"," ","t","h","e"," ","l","o","g","i","n"," ","b","u","g">>

\* "Design a secure payment API with caching"
TextSecureApi ==
    <<"D","e","s","i","g","n"," ","a"," ","s","e","c","u","r","e"," ","p","a","y","m","e","n","t"," ","A","P","I"," ","w","i","t","h"," ","c","a","c","h","i","n","g">>

\* "hello"
TextHello ==
    <<"h","e","l","l","o">>

\* "implement build code develop create write function method class component api endpoint route debug fix error bug optimize refactor performance test plan strategy roadmap timeline project workflow process architecture design proposal requirement scope milestone deadline goal objective task deliverable stakeholder team resource"
TextOverride ==
    <<"i","m","p","l","e","m","e","n","t"," ","b","u","i","l","d"," ","c","o","d","e"," ","d","e","v">>
    \o <<"e","l","o","p"," ","c","r","e","a","t","e"," ","w","r","i","t","e"," ","f","u","n","c","t","i">>
    \o <<"o","n"," ","m","e","t","h","o","d"," ","c","l","a","s","s"," ","c","o","m","p","o","n","e","n">>
    \o <<"t"," ","a","p","i"," ","e","n","d","p","o","i","n","t"," ","r","o","u","t","e"," ","d","e","b">>
    \o <<"u","g"," ","f","i","x"," ","e","r","r","o","r"," ","b","u","g"," ","o","p","t","i","m","i","z">>
    \o <<"e"," ","r","e","f","a","c","t","o","r"," ","p","e","r","f","o","r","m","a","n","c","e"," ","t">>
    \o <<"e","s","t"," ","p","l","a","n"," ","s","t","r","a","t","e","g","y"," ","r","o","a","d","m","a">>
    \o <<"p"," ","t","i","m","e","l","i","n","e"," ","p","r","o","j","e","c","t"," ","w","o","r","k","f">>
    \o <<"l","o","w"," ","p","r","o","c","e","s","s"," ","a","r","c","h","i","t","e","c","t","u","r","e">>
    \o <<" ","d","e","s","i","g","n"," ","p","r","o","p","o","s","a","l"," ","r","e","q","u","i","r","e">>
    \o <<"m","e","n","t"," ","s","c","o","p","e"," ","m","i","l","e","s","t","o","n","e"," ","d","e","a">>
    \o <<"d","l","i","n","e"," ","g","o","a","l"," ","o","b","j","e","c","t","i","v","e"," ","t","a","s">>
    \o <<"k"," ","d","e","l","i","v","e","r","a","b","l","e"," ","s","t","a","k","e","h","o","l","d","e">>
    \o <<"r"," ","t","e","a","m"," ","r","e","s","o","u","r","c","e">>

\* "I need to implement a new API endpoint with debugging support"
TextImplementEndpoint ==
    <<"I"," ","n","e","e","d"," ","t","o"," ","i","m","p","l","e","m","e","n","t"," ","a"," ","n","e","w"," ","A","P","I"," ","e","n","d","p","o","i","n","t"," ","w","i","t","h"," ","d","e","b","u","g","g","i","n","g"," ","s","u","p","p","o","r","t">>

\* "implement build code develop create write function method class component api endpoint route debug fix error bug optimize refactor performance test plan strategy roadmap timeline project workflow process architecture design proposal requirement scope milestone deadline goal objective task deliverable stakeholder team"
TextOverrideBar ==
    <<"i","m","p","l","e","m","e","n","t"," ","b","u","i","l","d"," ","c","o","d","e"," ","d","e","v","e","l","o","p"," ","c","r","e","a","t","e"," ","w","r","i","t","e"," ","f","u","n","c","t","i","o","n"," ","m","e","t","h","o","d"," ","c","l","a","s","s"," ","c","o","m","p","o","n","e","n","t"," ","a","p","i"," ","e","n","d","p","o","i","n","t"," ","r","o","u","t","e"," ","d","e","b","u","g"," ","f","i","x"," ","e","r","r","o","r"," ","b","u","g"," ","o","p","t","i","m","i","z","e"," ","r","e","f","a","c","t","o","r"," ","p","e","r","f","o","r","m","a","n","c","e"," ","t","e","s","t"," ","p","l","a","n"," ","s","t","r","a","t","e","g","y"," ","r","o","a","d","m","a","p"," ","t","i","m","e","l","i","n","e"," ","p","r","o","j","e","c","t"," ","w","o","r","k","f","l","o","w"," ","p","r","o","c","e","s","s"," ","a","r","c","h","i","t","e","c","t","u","r","e"," ","d","e","s","i","g","n"," ","p","r","o","p","o","s","a","l"," ","r","e","q","u","i","r","e","m","e","n","t"," ","s","c","o","p","e"," ","m","i","l","e","s","t","o","n","e"," ","d","e","a","d","l","i","n","e"," ","g","o","a","l"," ","o","b","j","e","c","t","i","v","e"," ","t","a","s","k"," ","d","e","l","i","v","e","r","a","b","l","e"," ","s","t","a","k","e","h","o","l","d","e","r"," ","t","e","a","m">>

\* "fix the login bug"
TextFixBugLower ==
    <<"f","i","x"," ","t","h","e"," ","l","o","g","i","n"," ","b","u","g">>

Texts == << TextEmpty, TextBlank, TextFixBug, TextSecureApi, TextHello, TextOverride,
           TextImplementEndpoint, TextOverrideBar, TextFixBugLower >>

(***************************************************************************)
(* router-engine.ts: the built-in registry                                 *)
(***************************************************************************)

STATIC_AGENTS == <<
    [id |-> "codegen", costPerToken |-> 3, enabled |-> TRUE],
    [id |-> "planning", costPerToken |-> 2, enabled |-> TRUE],
    [id |-> "security", costPerToken |-> 4, enabled |-> TRUE],
    [id |-> "infrastructure", costPerToken |-> 3, enabled |-> TRUE] >>

STATIC_SKILL_FILES == <<
    [id |-> "task-complexity-assessment", agent |-> "planning",
     keywords |-> <<<<"c","o","m","p","l","e","x","i","t","y">>, <<"a","s","s","e","s","s","m","e","n","t">>, <<"r","o","u","t","i","n","g">>>>],
    [id |-> "agent-codegen", agent |-> "codegen",
     keywords |-> <<<<"c","o","d","e">>, <<"g","e","n","e","r","a","t","e">>, <<"i","m","p","l","e","m","e","n","t">>>>],
    [id |-> "keyword-matching-strategy", agent |-> "planning",
     keywords |-> <<<<"m","a","t","c","h","i","n","g">>, <<"s","t","r","a","t","e","g","y">>, <<"r","o","u","t","i","n","g">>>>],
    [id |-> "security-threat-modeling", agent |-> "security",
     keywords |-> <<<<"t","h","r","e","a","t">>, <<"s","e","c","u","r","i","t","y">>, <<"r","i","s","k">>>>],
    [id |-> "infrastructure-deployment", agent |-> "infrastructure",
     keywords |-> <<<<"d","e","p","l","o","y">>, <<"i","n","f","r","a","s","t","r","u","c","t","u","r","e">>, <<"c","l","o","u","d">>>>] >>

(***************************************************************************)
(* String primitives of the JavaScript runtime                             *)
(***************************************************************************)

UPPER == <<"A","B","C","D","E","F","G","H","I","J","K","L","M",
           "N","O","P","Q","R","S","T","U","V","W","X","Y","Z">>

LOWER == <<"a","b","c","d","e","f","g","h","i","j","k","l","m",
           "n","o","p","q","r","s","t","u","v","w","x","y","z">>

DIGITS == <<"0","1","2","3","4","5","6","7","8","9">>

\* the characters matched by \w
WordChars == {UPPER[i] : i \in 1..26} \cup {LOWER[i] : i \in 1..26}
             \cup {DIGITS[i] : i \in 1..10} \cup {"_"}

\* the characters matched by \s that the texts use
SpaceChars == {" ", "\t", "\n"}

\* the characters matched by [.!?]
SentenceEnds == {".", "!", "?"}

Min(a, b) == IF a <= b THEN a ELSE b

toLowerCaseChar(c) ==
    IF \E i \in 1..26 : UPPER[i] = c
    THEN LOWER[CHOOSE i \in 1..26 : UPPER[i] = c]
    ELSE c

toLowerCase_asIs(s) == s

toLowerCase(s) == [i \in 1..Len(s) |-> toLowerCaseChar(s[i])]

\* String.prototype.includes
includes(s, k) ==
    \E i \in 0..(Len(s) - Len(k)) : \A j \in 1..Len(k) : s[i + j] = k[j]

\* String.prototype.split on a regular expression [seps]+ : the pieces
\* between maximal runs of separator characters, empty pieces at the ends kept
split(s, seps) ==
    LET n == Len(s)
        starts == {i \in 1..n : s[i] \notin seps /\ (i = 1 \/ s[i - 1] \in seps)}
        endOf(i) == CHOOSE j \in i..n :
                        /\ \A k \in i..j : s[k] \notin seps
                        /\ (j = n \/ s[j + 1] \in seps)
        nth(k) == CHOOSE i \in starts : Cardinality({j \in starts : j < i}) = k - 1
        pieces == [k \in 1..Cardinality(starts) |-> SubSeq(s, nth(k), endOf(nth(k)))]
    IN IF n = 0 THEN << << >> >>
       ELSE (IF s[1] \in seps THEN << << >> >> ELSE << >>)
            \o pieces
            \o (IF s[n] \in seps THEN << << >> >> ELSE << >>)

\* String.prototype.trim
isBlank(s) == \A i \in 1..Len(s) : s[i] \in SpaceChars

(***************************************************************************)
(* keyword-matcher.ts                                                      *)
(***************************************************************************)

\* score units per 1.0
SCORE_UNIT == 100

\* confidence units per 1.0, before rounding
CONF_UNIT == 1000000

DEFAULT_CONFIDENCE == 85

KEYWORD_WEIGHT == 100

COMPOUND_KEYWORD_BOOST == 15

KEYWORD_SETS == <<
    [agent |-> "codegen", domain |-> "implementation", keywords |-> KW_codegen],
    [agent |-> "planning", domain |-> "strategy", keywords |-> KW_planning],
    [agent |-> "security", domain |-> "security", keywords |-> KW_security],
    [agent |-> "infrastructure", domain |-> "operations",
     keywords |-> KW_infrastructure] >>

isWordChar(c) == c \in WordChars

isLongWord(w) == Len(w) > 2

tokenize(text) ==
    LET pieces == split(text, SpaceChars)
        words == [i \in 1..Len(pieces) |-> SelectSeq(pieces[i], isWordChar)]
    IN SelectSeq(words, isLongWord)

extractCompoundKeywords(text) ==
    SelectSeq(compoundPatterns, LAMBDA p : includes(text, p))

Range(s) == {s[i] : i \in 1..Len(s)}

\* the 0-100 normalisation: Math.min(100, (totalScore / 10) * 10)
normalizeScore(totalScore) ==
    Min(100 * SCORE_UNIT, (totalScore * 10) \div 10)

\* one iteration of the loop over KEYWORD_SETS
scoreAgent(entry, normalizedText, allKeywords) ==
    LET matched == SelectSeq(entry.keywords, LAMBDA k : k \in allKeywords)
        phrases == SelectSeq(entry.keywords,
                             LAMBDA k : includes(normalizedText, k))
        phraseBoost == (KEYWORD_WEIGHT * COMPOUND_KEYWORD_BOOST) \div SCORE_UNIT
        totalScore == Len(matched) * DEFAULT_CONFIDENCE
                      + Len(phrases) * phraseBoost
    IN [agent |-> entry.agent,
        score |-> normalizeScore(totalScore),
        matches |-> [i \in 1..Len(matched) |->
                        [keyword |-> matched[i], agent |-> entry.agent,
                         confidence |-> DEFAULT_CONFIDENCE,
                         domain |-> entry.domain]],
        primaryDomain |-> entry.domain]

\* Array.prototype.toSorted((a, b) => b.score - a.score): stable, descending
RECURSIVE toSortedByScore(_)
toSortedByScore(s) ==
    IF s = << >> THEN << >>
    ELSE LET front == toSortedByScore(SubSeq(s, 1, Len(s) - 1))
             x == s[Len(s)]
             k == Cardinality({i \in 1..Len(front) : front[i].score >= x.score})
         IN SubSeq(front, 1, k) \o << x >> \o SubSeq(front, k + 1, Len(front))

scoreMessage(text) ==
    LET normalizedText == toLowerCase(text)
        words == tokenize(normalizedText)
        compounds == extractCompoundKeywords(normalizedText)
        allKeywords == Range(words) \cup Range(compounds)
    IN toSortedByScore([a \in 1..Len(KEYWORD_SETS) |->
                           scoreAgent(KEYWORD_SETS[a], normalizedText, allKeywords)])

\* getConfidenceScore with the division by 100 left out of the medium branch
getConfidenceScore_unscaled(scores) ==
    IF Len(scores) = 0 THEN 0
    ELSE LET topScore == scores[1].score
             secondScore == IF Len(scores) >= 2 THEN scores[2].score ELSE 0
         IN IF topScore >= 50 * SCORE_UNIT /\ topScore - secondScore >= 20 * SCORE_UNIT
            THEN Min(950000, 700000 + topScore * 25)
            ELSE IF topScore >= 30 * SCORE_UNIT
                 THEN 600000 + topScore * 3500
                 ELSE Min(500000, topScore * 100)

getConfidenceScore(scores) ==
    IF Len(scores) = 0 THEN 0
    ELSE LET topScore == scores[1].score
             secondScore == IF Len(scores) >= 2 THEN scores[2].score ELSE 0
         IN IF topScore >= 50 * SCORE_UNIT /\ topScore - secondScore >= 20 * SCORE_UNIT
            THEN Min(950000, 700000 + topScore * 25)
            ELSE IF topScore >= 30 * SCORE_UNIT
                 THEN 600000 + topScore * 35
                 ELSE Min(500000, topScore * 100)

(***************************************************************************)
(* complexity-classifier.ts                                                *)
(***************************************************************************)

\* the agent argument of assessComplexity when it is not passed (undefined)
NoAgent == ""

AGENT_COMPLEXITY_MAPPING(agent) ==
    CASE agent = "codegen" -> "moderate"
      [] agent \in {"planning", "security", "infrastructure"} -> "complex"
      [] OTHER -> "undefined"

detectTopics(text) ==
    SelectSeq([t \in 1..Len(topicKeywords) |-> t],
              LAMBDA t : \E i \in 1..Len(topicKeywords[t]) :
                            includes(text, topicKeywords[t][i]))

suggestAgent(level) ==
    CASE level = "simple" -> "codegen"
      [] level = "moderate" -> "codegen"
      [] level = "complex" -> "planning"
      [] OTHER -> "codegen"

complexityScore(text) ==
    LET normalizedText == toLowerCase(text)
        sentences == SelectSeq(split(text, SentenceEnds), LAMBDA p : ~isBlank(p))
        complexMatches == SelectSeq(COMPLEX_KEYWORDS,
                                    LAMBDA k : includes(normalizedText, k))
        moderateMatches == SelectSeq(MODERATE_KEYWORDS,
                                     LAMBDA k : includes(normalizedText, k))
        hasCodeBlocks == \E i \in 1..Len(CODE_SYNTAX) : includes(text, CODE_SYNTAX[i])
        topics == detectTopics(normalizedText)
        hasConstraints == \E i \in 1..Len(CONSTRAINT_WORDS) :
                             includes(normalizedText, CONSTRAINT_WORDS[i])
    IN (IF Len(text) > 1500 THEN 2 ELSE IF Len(text) > 500 THEN 1 ELSE 0)
       + (IF Len(sentences) > 10 THEN 2 ELSE IF Len(sentences) > 5 THEN 1 ELSE 0)
       + Len(complexMatches) * 2
       + Len(moderateMatches) * 1
       + (IF hasCodeBlocks THEN 1 ELSE 0)
       + (IF Len(topics) > 2 THEN 1 ELSE 0)
       + (IF hasConstraints THEN 1 ELSE 0)

levelOfScore(score) ==
    IF score >= 6 THEN "complex"
    ELSE IF score >= 3 THEN "moderate"
    ELSE "simple"

assessComplexity(text, agent) ==
    LET score == complexityScore(text)
        computed == levelOfScore(score)
        level == IF agent # NoAgent
                    /\ AGENT_COMPLEXITY_MAPPING(agent) = "complex"
                    /\ computed = "simple"
                 THEN "moderate"
                 ELSE computed
    IN [level |-> level,
        score |-> score,
        estimatedTokens |-> (Len(text) + 3) \div 4,
        suggestedAgent |-> suggestAgent(level)]

(***************************************************************************)
(* router-engine.ts                                                        *)
(***************************************************************************)

FALLBACK_AGENT == "planning"

\* cost units per 1.0, before rounding: tokens / 1000 * (price / 1000) * (multiplier / 10)
COST_UNIT == 10000000

\* a JavaScript Map keyed by id, in insertion order
MapHas(m, id) == \E i \in 1..Len(m) : m[i].id = id

MapGet(m, id) == m[CHOOSE i \in 1..Len(m) : m[i].id = id]

MapSet(m, v) ==
    IF MapHas(m, v.id)
    THEN [i \in 1..Len(m) |-> IF m[i].id = v.id THEN v ELSE m[i]]
    ELSE Append(m, v)

RECURSIVE MapFrom(_)
MapFrom(items) ==
    IF items = << >> THEN << >>
    ELSE MapSet(MapFrom(SubSeq(items, 1, Len(items) - 1)), items[Len(items)])

\* the constructor: both maps filled from the arrays passed (or the defaults)
\* (agentsLoad and skillsLoad are history: how the loads of the object ended)
RouterEngine(db, agents, skillFiles) ==
    [db |-> db, agents |-> MapFrom(agents), skillFiles |-> MapFrom(skillFiles),
     agentsLoad |-> "none", skillsLoad |-> "none"]

\* the for loop of loadAgentsFromDB over the rows of the result: a row whose
\* JSON columns do not parse throws, and the rows before it stay merged
RECURSIVE mergeAgentRows(_, _)
mergeAgentRows(agents, rows) ==
    IF rows = << >> \/ rows[1].malformed THEN agents
    ELSE mergeAgentRows(MapSet(agents, [id |-> rows[1].id,
                                        costPerToken |-> rows[1].cost_per_token,
                                        enabled |-> TRUE]),
                        Tail(rows))

\* the for loop of loadSkillFilesFromDB
RECURSIVE mergeSkillRows(_, _)
mergeSkillRows(skillFiles, rows) ==
    IF rows = << >> \/ rows[1].malformed THEN skillFiles
    ELSE mergeSkillRows(MapSet(skillFiles, [id |-> rows[1].id,
                                            agent |-> rows[1].agent,
                                            keywords |-> rows[1].keywords]),
                        Tail(rows))

\* getAgents
getAgents(engine) == SelectSeq(engine.agents, LAMBDA a : a.enabled)

\* findRelevantSkills without the test of the owning agent
findRelevantSkills_anyOwner(engine, agentId, keywords) ==
    LET overlap(skill) ==
            \E i \in 1..Len(skill.keywords) : \E j \in 1..Len(keywords) :
                \/ includes(keywords[j], skill.keywords[i])
                \/ includes(skill.keywords[i], keywords[j])
        relevant == SelectSeq(engine.skillFiles, LAMBDA skill : overlap(skill))
    IN [i \in 1..Min(3, Len(relevant)) |-> relevant[i].id]

findRelevantSkills(engine, agentId, keywords) ==
    LET overlap(skill) ==
            \E i \in 1..Len(skill.keywords) : \E j \in 1..Len(keywords) :
                \/ includes(keywords[j], skill.keywords[i])
                \/ includes(skill.keywords[i], keywords[j])
        relevant == SelectSeq(engine.skillFiles,
                              LAMBDA skill : skill.agent = agentId /\ overlap(skill))
    IN [i \in 1..Min(3, Len(relevant)) |-> relevant[i].id]

confidenceLevel(confidence) ==
    IF confidence * 100 >= 75 * CONF_UNIT THEN "high"
    ELSE IF confidence * 100 >= 50 * CONF_UNIT THEN "medium"
    ELSE "low"

\* the reason string, as the pieces interpolated into it
buildReason(agent, keywords, confidence, complexity) ==
    IF Len(keywords) = 0
    THEN << "fallback", agent >>
    ELSE << "keywords", SubSeq(keywords, 1, Min(3, Len(keywords))), agent,
            confidenceLevel(confidence), complexity >>

complexityMultiplier(level) ==
    IF level = "simple" THEN 10 ELSE IF level = "moderate" THEN 15 ELSE 25

estimateCost(engine, agentId, complexity) ==
    IF ~MapHas(engine.agents, agentId)
       \/ MapGet(engine.agents, agentId).costPerToken = 0
    THEN COST_UNIT \div 2
    ELSE complexity.estimatedTokens * MapGet(engine.agents, agentId).costPerToken
         * complexityMultiplier(complexity.level)

\* Math.round(x * 100) / 100, in 1/100 (unit is a multiple of 200)
roundTo2(x, unit) == (x + unit \div 200) \div (unit \div 100)

\* selectAgent with the bar of the override strict
selectAgent_strictBar(agentScores, complexity) ==
    LET topAgent == IF Len(agentScores) > 0 THEN agentScores[1].agent
                    ELSE FALLBACK_AGENT
    IN IF /\ complexity.level = "complex"
          /\ topAgent # "planning"
          /\ \E i \in 1..Len(agentScores) :
                /\ agentScores[i].agent = "planning"
                /\ agentScores[i].score > 20 * SCORE_UNIT
       THEN "planning"
       ELSE topAgent

\* the agent route returns after the complexity-based override
selectAgent(agentScores, complexity) ==
    LET topAgent == IF Len(agentScores) > 0 THEN agentScores[1].agent
                    ELSE FALLBACK_AGENT
    IN IF /\ complexity.level = "complex"
          /\ topAgent # "planning"
          /\ \E i \in 1..Len(agentScores) :
                /\ agentScores[i].agent = "planning"
                /\ \A j \in 1..(i - 1) : agentScores[j].agent # "planning"
                /\ agentScores[i].score >= 20 * SCORE_UNIT
       THEN "planning"
       ELSE topAgent

\* the keyword scores and the complexity of each text, evaluated once
Analysis ==
    [t \in Range(Texts) |-> [agentScores |-> scoreMessage(t),
                             complexity |-> assessComplexity(t, NoAgent)]]

\* the body of route after the scoring and the assessment
decide(engine, agentScores, complexity, startTime) ==
    LET confidence == getConfidenceScore(agentScores)
        selectedAgent == selectAgent(agentScores, complexity)
        topMatches == IF Len(agentScores) > 0 THEN agentScores[1].matches ELSE << >>
        matchedKeywords == [i \in 1..Min(5, Len(topMatches)) |-> topMatches[i].keyword]
        estimatedCost == estimateCost(engine, selectedAgent, complexity)
    IN [agent |-> selectedAgent,
        confidence |-> roundTo2(confidence, CONF_UNIT),
        reason |-> buildReason(selectedAgent, matchedKeywords, confidence,
                               complexity.level),
        skillFilesUsed |-> findRelevantSkills(engine, selectedAgent, matchedKeywords),
        estimatedCost |-> roundTo2(estimatedCost, COST_UNIT),
        complexity |-> complexity.level,
        latency |-> 0,
        timestamp |-> startTime,
        matchedKeywords |-> matchedKeywords]

\* route breaking ties between equally scored agents by the clock instead of
\* by the stable order of the sort
route_clockTies(engine, message, startTime) ==
    LET agentScores == Analysis[message].agentScores
        tied == Len(agentScores) >= 2 /\ agentScores[1].score = agentScores[2].score
        swapped == [i \in 1..Len(agentScores) |->
                       IF i = 1 THEN agentScores[2]
                       ELSE IF i = 2 THEN agentScores[1] ELSE agentScores[i]]
    IN decide(engine,
              IF tied /\ startTime % 2 = 1 THEN swapped ELSE agentScores,
              Analysis[message].complexity, startTime)

route(engine, message, startTime) ==
    decide(engine, Analysis[message].agentScores, Analysis[message].complexity,
           startTime)

(***************************************************************************)
(* State                                                                   *)
(***************************************************************************)

VARIABLES
    engines,        \* the RouterEngine objects constructed so far
    routerEngine,   \* index.ts global: index into engines, 0 while unassigned
    caches,         \* the RoutingCache objects constructed so far
    routingCache,   \* index.ts global: index into caches, 0 while unassigned
    loggers,        \* the AuditLogger objects constructed so far
    auditLogger,    \* index.ts global: index into loggers, 0 while unassigned
    isInitialized,  \* index.ts global
    env,            \* the bindings of the worker: which of D1 / KV are present
    store,          \* the rows the D1 tables agents and skill_files hold
    kv,             \* the ROUTING_CACHE namespace: key -> value
    auditKV,        \* the AUDIT_LOG namespace: the entries put
    auditDB,        \* the D1 table routing_audit_log: the rows inserted
    now,            \* Date.now(), in ticks of TickMs milliseconds
    reqs,           \* the requests in flight and their responses
    calls,          \* number of requests started
    ret,            \* the last direct call of the engine API and its result
    prev,           \* the route call before it
    populated       \* history: per key, the last cache.set of a routing call

vars == << engines, routerEngine, caches, routingCache, loggers, auditLogger,
           isInitialized, env, store, kv, auditKV, auditDB, now, reqs, calls,
           ret, prev, populated >>

workerVars == << routerEngine, caches, routingCache, loggers, auditLogger,
                 isInitialized, env, kv, auditKV, auditDB, reqs, calls, populated >>

(***************************************************************************)
(* The external store (D1): the rows its two queries return                *)
(***************************************************************************)

\* the rows of SELECT * FROM agents WHERE enabled = 1; malformed: a row whose
\* keywords / domains column is not JSON
AgentRowSets ==
    { << >>,
      << [id |-> "custom", cost_per_token |-> 5, malformed |-> FALSE] >>,
      << [id |-> "codegen", cost_per_token |-> 100000, malformed |-> FALSE],
         [id |-> "broken", cost_per_token |-> 1, malformed |-> TRUE],
         [id |-> "late", cost_per_token |-> 1, malformed |-> FALSE] >> }

\* the rows of SELECT * FROM skill_files
SkillRowSets ==
    { << >>,
      << [id |-> "planning-code", agent |-> "planning",
          keywords |-> << <<"c","o","d","e">> >>, malformed |-> FALSE],
         [id |-> "broken", agent |-> "codegen",
          keywords |-> << >>, malformed |-> TRUE] >> }

(***************************************************************************)
(* The engine used directly, as the integration tests use it:              *)
(* new RouterEngine(db, agents, skillFiles), then its methods              *)
(***************************************************************************)

\* the agents arrays passed to the constructor
CtorAgentSets ==
    { STATIC_AGENTS,
      << >>,
      << [id |-> "planning", costPerToken |-> 2, enabled |-> FALSE],
         [id |-> "custom", costPerToken |-> 0, enabled |-> TRUE] >> }

\* the skill file arrays passed to the constructor
CtorSkillSets ==
    { STATIC_SKILL_FILES,
      << [id |-> "planning-code", agent |-> "planning",
          keywords |-> << <<"c","o","d","e">> >>],
         [id |-> "codegen-build", agent |-> "codegen",
          keywords |-> << <<"b","u","i","l","d">> >>] >> }

\* the AgentScore lists getConfidenceScore is called with: scores on the
\* normalised 0-100 scale, around the thresholds of the function
ScoreSamples == {0, 2999, 3000, 3001, 4999, 5000, 10000}

ScoreLists ==
    {<< >>}
    \cup {<< [agent |-> "codegen", score |-> a] >> : a \in ScoreSamples}
    \cup {<< [agent |-> "codegen", score |-> a],
             [agent |-> "planning", score |-> b] >> :
            a \in ScoreSamples, b \in ScoreSamples}

\* clock ticks the direct engine calls are spread over
MaxEngTime == 1

engine == engines[1]

registryOf(e) == [agents |-> e.agents, skillFiles |-> e.skillFiles]

InitEngine ==
    /\ \E db \in BOOLEAN, a \in CtorAgentSets, sk \in CtorSkillSets :
          engines = << RouterEngine(db, a, sk) >>
    /\ \E ar \in AgentRowSets, sr \in SkillRowSets :
          store = [agentRows |-> ar, skillRows |-> sr]
    /\ routerEngine = 0
    /\ caches = << >>
    /\ routingCache = 0
    /\ loggers = << >>
    /\ auditLogger = 0
    /\ isInitialized = FALSE
    /\ env = [db |-> FALSE, cacheKV |-> FALSE, auditKV |-> FALSE]
    /\ kv = {}
    /\ auditKV = << >>
    /\ auditDB = << >>
    /\ now = 0
    /\ reqs = << >>
    /\ calls = 0
    /\ ret = [op |-> "none"]
    /\ prev = [op |-> "none"]
    /\ populated = {}

\* loadAgentsFromDB: without a database nothing happens; the query throws
\* (caught, nothing merged) or returns its rows, merged until one is malformed
hasMalformed(rows) == \E i \in 1..Len(rows) : rows[i].malformed

\* how a load ended, given how the loads before it on the object ended
loadOutcome(before, queryThrows, rows) ==
    IF queryThrows THEN (IF before = "none" THEN "threw" ELSE before)
    ELSE IF hasMalformed(rows) THEN "malformed"
    ELSE IF before = "malformed" THEN before ELSE "merged"

loadAgentsFromDB_clearsFirst(e, queryThrows) ==
    IF ~e.db THEN e
    ELSE IF queryThrows
         THEN [e EXCEPT !.agents = << >>, !.agentsLoad = loadOutcome(@, TRUE, << >>)]
         ELSE [e EXCEPT !.agents = mergeAgentRows(<< >>, store.agentRows),
                        !.agentsLoad = loadOutcome(@, FALSE, store.agentRows)]

loadAgentsFromDB(e, queryThrows) ==
    IF ~e.db THEN e
    ELSE IF queryThrows
         THEN [e EXCEPT !.agentsLoad = loadOutcome(@, TRUE, << >>)]
         ELSE [e EXCEPT !.agents = mergeAgentRows(e.agents, store.agentRows),
                        !.agentsLoad = loadOutcome(@, FALSE, store.agentRows)]

loadSkillFilesFromDB(e, queryThrows) ==
    IF ~e.db THEN e
    ELSE IF queryThrows
         THEN [e EXCEPT !.skillsLoad = loadOutcome(@, TRUE, << >>)]
         ELSE [e EXCEPT !.skillFiles = mergeSkillRows(e.skillFiles, store.skillRows),
                        !.skillsLoad = loadOutcome(@, FALSE, store.skillRows)]

EngLoadAgents ==
    /\ \E queryThrows \in BOOLEAN :
          engines' = [engines EXCEPT ![1] = loadAgentsFromDB(engine, queryThrows)]
    /\ ret' = [op |-> "loadAgentsFromDB"]
    /\ UNCHANGED << workerVars, store, now, prev >>

EngLoadSkillFiles ==
    /\ \E queryThrows \in BOOLEAN :
          engines' = [engines EXCEPT ![1] = loadSkillFilesFromDB(engine, queryThrows)]
    /\ ret' = [op |-> "loadSkillFilesFromDB"]
    /\ UNCHANGED << workerVars, store, now, prev >>

EngRoute ==
    /\ \E m \in 1..Len(Texts) :
          ret' = [op |-> "route", message |-> m, registry |-> registryOf(engine),
                  outcome |-> "decision", result |-> route(engine, Texts[m], now)]
    /\ prev' = IF ret.op = "route" THEN ret ELSE prev
    /\ UNCHANGED << workerVars, engines, store, now >>

\* KeywordMatcher.scoreMessage(text)
EngScoreMessage ==
    /\ \E m \in 1..Len(Texts) :
          ret' = [op |-> "scoreMessage", message |-> m,
                  result |-> Analysis[Texts[m]].agentScores]
    /\ UNCHANGED << workerVars, engines, store, now, prev >>

\* KeywordMatcher.getConfidenceScore(scores), on a list of scores or on the
\* list the scoreMessage call before it returned
EngGetConfidenceScore ==
    /\ \E scores \in ScoreLists
                       \cup (IF ret.op = "scoreMessage" THEN {ret.result} ELSE {}) :
          ret' = [op |-> "getConfidenceScore", scores |-> scores,
                  result |-> getConfidenceScore(scores)]
    /\ UNCHANGED << workerVars, engines, store, now, prev >>

EngTick ==
    /\ now < MaxEngTime
    /\ now' = now + 1
    /\ UNCHANGED << workerVars, engines, store, ret, prev >>

NextEngine ==
    \/ EngLoadAgents
    \/ EngLoadSkillFiles
    \/ EngRoute
    \/ EngTick

\* the engine constructed with any registry, loaded and called directly
SpecEngine == InitEngine /\ [][NextEngine]_vars

\* the default engine, new RouterEngine(), and the static scoring functions
InitConfidence ==
    /\ InitEngine
    /\ engines = << RouterEngine(FALSE, STATIC_AGENTS, STATIC_SKILL_FILES) >>
    /\ store = [agentRows |-> << >>, skillRows |-> << >>]

NextConfidence ==
    \/ EngRoute
    \/ EngScoreMessage
    \/ EngGetConfidenceScore
    \/ EngTick

SpecConfidence == InitConfidence /\ [][NextConfidence]_vars

(***************************************************************************)
(* cache.ts: RoutingCache and AuditLogger                                  *)
(***************************************************************************)

CACHE_TTL_SECONDS == 3600

\* the ttl index.ts gives every entry it caches
ENTRY_TTL_SECONDS == 3600

\* milliseconds per clock tick
TickMs == 3600000

\* Date.now()
dateNow(t) == t * TickMs

\* crypto.subtle.digest("SHA-256", text), hex encoded: a digest of the text as
\* passed, taken to be free of collisions; the digest of Texts[i] is i
generateHash(text) == CHOOSE i \in 1..Len(Texts) : Texts[i] = text

emptyStats == [hits |-> 0, misses |-> 0, hitRate |-> << 0, 1 >>, totalRequests |-> 0]

\* new RoutingCache(kvNamespace)
RoutingCache(kvNamespace) == [kv |-> kvNamespace, cache |-> {}, stats |-> emptyStats]

\* new AuditLogger(kvNamespace, db)
AuditLogger(kvNamespace, db) == [kv |-> kvNamespace, db |-> db]

\* isExpired with the right-hand side in seconds instead of milliseconds
isExpired_seconds(decision, t) ==
    dateNow(t) - decision.timestamp > decision.ttl

isExpired(decision, t) ==
    dateNow(t) - decision.timestamp > decision.ttl * 1000

\* updateStats: hitRate is the fraction << hits, totalRequests >>, 0 as << 0, 1 >>
updateStats(stats) ==
    LET total == stats.hits + stats.misses
    IN [stats EXCEPT !.totalRequests = total,
                     !.hitRate = IF total > 0 THEN << stats.hits, total >>
                                 ELSE << 0, 1 >>]

countHit(c) == [c EXCEPT !.stats = updateStats([c.stats EXCEPT !.hits = @ + 1])]

\* a miss counted without updateStats
countMiss_noUpdate(c) == [c EXCEPT !.stats.misses = @ + 1]

countMiss(c) == [c EXCEPT !.stats = updateStats([c.stats EXCEPT !.misses = @ + 1])]

\* Map.get / Map.set of the in-memory tier and of the KV namespace
hasKey(m, key) == \E e \in m : e.key = key

valueAt(m, key) == (CHOOSE e \in m : e.key = key).value

\* set that only writes the KV tier
memorySet_kvOnly(c, key, value) == c

memorySet(c, key, value) ==
    [c EXCEPT !.cache = {e \in @ : e.key # key} \cup {[key |-> key, value |-> value]}]

\* get, up to its first await: the in-memory tier
memoryHit_anyAge(c, key, t) == hasKey(c.cache, key)

memoryHit(c, key, t) == hasKey(c.cache, key) /\ ~isExpired(valueAt(c.cache, key), t)

\* get, after the KV namespace answered with its value for the key
kvHit(key, t) == hasKey(kv, key) /\ ~isExpired(valueAt(kv, key), t)

\* clearAll
clearAll(c) == [c EXCEPT !.cache = {}]

\* resetStats
resetStats(c) == [c EXCEPT !.stats = emptyStats]

(***************************************************************************)
(* index.ts: the worker                                                    *)
(***************************************************************************)

\* requests in flight at once
NumReqs == 2

\* requests started in all
MaxCalls == 2

\* clock ticks
MaxTime == 2

ReqIds == 1..NumReqs

\* body.message of a request: 0 when the field is missing, else the text Texts[m]
ReqMessages == {0, 1, 2, 3}

\* the bindings the worker is deployed with
Envs ==
    { [db |-> FALSE, cacheKV |-> FALSE, auditKV |-> FALSE, flaky |-> "none"] }
    \cup { [db |-> TRUE, cacheKV |-> TRUE, auditKV |-> TRUE, flaky |-> f] :
               f \in {"none", "db", "cache", "audit"} }

\* the outcomes of an operation on a binding: it throws only on the flaky one
mayThrow(binding) == IF env.flaky = binding THEN BOOLEAN ELSE {FALSE}

\* the contents of the database a deployment is bound to
Stores ==
    { [agentRows |-> ar, skillRows |-> sr] :
          ar \in AgentRowSets \ {<< >>}, sr \in SkillRowSets \ {<< >>} }

\* a request: its place in the handler (pc), its input (kind, message), the
\* locals of the handler and of the methods it waits in, and its response;
\* expect, stale, hitTime, engineUsed, auditFailed and tier are history
idleReq ==
    [pc |-> "idle", kind |-> "none", message |-> 0, startTime |-> 0, self |-> 0,
     hash |-> 0, cached |-> FALSE, decision |-> [none |-> TRUE],
     value |-> [none |-> TRUE], entry |-> [none |-> TRUE], status |-> 0,
     response |-> [none |-> TRUE],
     expect |-> << >>, stale |-> FALSE, hitTime |-> 0, engineUsed |-> 0,
     auditFailed |-> {}, tier |-> "none"]

Init ==
    /\ engines = << >>
    /\ routerEngine = 0
    /\ caches = << >>
    /\ routingCache = 0
    /\ loggers = << >>
    /\ auditLogger = 0
    /\ isInitialized = FALSE
    /\ env \in Envs
    /\ store \in IF env.db THEN Stores
                ELSE {[agentRows |-> << >>, skillRows |-> << >>]}
    /\ kv = {}
    /\ auditKV = << >>
    /\ auditDB = << >>
    /\ now = 0
    /\ reqs = [r \in ReqIds |-> idleReq]
    /\ calls = 0
    /\ ret = [op |-> "none"]
    /\ prev = [op |-> "none"]
    /\ populated = {}

\* a slot is free before its first request and once its response is out
free(r) == reqs[r].pc \in {"idle", "done"}

\* a request arrives (in the first free slot; the slots are interchangeable)
\* and its handler runs up to its first await on I/O:
\* initializeRouter returns at once when isInitialized; otherwise it constructs
\* the three globals and, with a database, waits for the agents query
Arrive(r) ==
    /\ free(r)
    /\ \A q \in ReqIds : q < r => ~free(q)
    /\ calls < MaxCalls
    /\ calls' = calls + 1
    /\ \E kind \in {"route", "clear"}, m \in ReqMessages :
          /\ kind = "clear" => m = 0
          /\ LET started == [idleReq EXCEPT !.kind = kind, !.message = m,
                                            !.startTime = now]
             IN IF isInitialized
                THEN /\ reqs' = [reqs EXCEPT ![r] = [started EXCEPT !.pc = "body"]]
                     /\ UNCHANGED << engines, routerEngine, caches, routingCache,
                                     loggers, auditLogger, isInitialized >>
                ELSE /\ engines' = Append(engines,
                            RouterEngine(env.db, STATIC_AGENTS, STATIC_SKILL_FILES))
                     /\ routerEngine' = Len(engines) + 1
                     /\ caches' = Append(caches, RoutingCache(env.cacheKV))
                     /\ routingCache' = Len(caches) + 1
                     /\ loggers' = Append(loggers, AuditLogger(env.auditKV, env.db))
                     /\ auditLogger' = Len(loggers) + 1
                     /\ IF env.db
                        THEN /\ reqs' = [reqs EXCEPT ![r] =
                                    [started EXCEPT !.pc = "loadAgents",
                                                    !.self = Len(engines) + 1]]
                             /\ UNCHANGED isInitialized
                        ELSE /\ reqs' = [reqs EXCEPT ![r] =
                                    [started EXCEPT !.pc = "body"]]
                             /\ isInitialized' = TRUE
    /\ UNCHANGED << env, store, kv, auditKV, auditDB, now, ret, prev, populated >>

\* the agents query answers: loadAgentsFromDB finishes on the engine it was
\* called on, and loadSkillFilesFromDB is called on the routerEngine global
LoadAgentsDone(r) ==
    /\ reqs[r].pc = "loadAgents"
    /\ \E queryThrows \in mayThrow("db") :
          engines' = [engines EXCEPT ![reqs[r].self] =
                         loadAgentsFromDB(engines[reqs[r].self], queryThrows)]
    /\ reqs' = [reqs EXCEPT ![r].pc = "loadSkills", ![r].self = routerEngine]
    /\ UNCHANGED << routerEngine, caches, routingCache, loggers, auditLogger,
                    isInitialized, env, store, kv, auditKV, auditDB, now, calls,
                    ret, prev, populated >>

\* the skill files query answers; initializeRouter sets isInitialized
LoadSkillsDone(r) ==
    /\ reqs[r].pc = "loadSkills"
    /\ \E queryThrows \in mayThrow("db") :
          engines' = [engines EXCEPT ![reqs[r].self] =
                         loadSkillFilesFromDB(engines[reqs[r].self], queryThrows)]
    /\ isInitialized' = TRUE
    /\ reqs' = [reqs EXCEPT ![r].pc = "body"]
    /\ UNCHANGED << routerEngine, caches, routingCache, loggers, auditLogger,
                    env, store, kv, auditKV, auditDB, now, calls, ret, prev,
                    populated >>

\* a || b for a field the cached decision lacks
fieldOr(decision, field, default) ==
    IF field \in DOMAIN decision THEN decision[field] ELSE default

\* String.prototype.substring(0, n)
substring(text, n) == SubSeq(text, 1, Min(n, Len(text)))

\* the entry the handler passes to auditLogger.log (its random id left out)
auditEntry(rq) ==
    [timestamp |-> dateNow(now),
     messageHash |-> rq.hash,
     message |-> substring(Texts[rq.message], 500),
     agent |-> rq.decision.agent,
     confidence |-> rq.decision.confidence,
     complexity |-> fieldOr(rq.decision, "complexity", "unknown"),
     estimatedCost |-> fieldOr(rq.decision, "estimatedCost", 0),
     cached |-> rq.cached,
     latency |-> dateNow(now) - dateNow(rq.startTime)]

\* the 200 response of POST /api/route
respond(rq) ==
    [rq EXCEPT !.pc = "done",
               !.status = 200,
               !.response =
                   [agent |-> rq.decision.agent,
                    confidence |-> rq.decision.confidence,
                    reason |-> rq.decision.reason,
                    skillFilesUsed |-> fieldOr(rq.decision, "skillFilesUsed", << >>),
                    estimatedCost |-> fieldOr(rq.decision, "estimatedCost", 0),
                    complexity |-> fieldOr(rq.decision, "complexity", "unknown"),
                    latency |-> rq.entry.latency,
                    timestamp |-> rq.decision.timestamp,
                    cached |-> rq.cached,
                    matchedKeywords |-> fieldOr(rq.decision, "matchedKeywords", << >>)]]

\* the 400 response for a missing message
reject(rq) == [rq EXCEPT !.pc = "done", !.status = 400]

\* the handler from the end of the cache step: the audit entry is built and
\* auditLogger.log runs up to its first await, or to its end without sinks
startLog(rq) ==
    LET logging == [rq EXCEPT !.entry = auditEntry(rq)]
    IN IF loggers[auditLogger].kv THEN [logging EXCEPT !.pc = "auditKV", !.self = auditLogger]
       ELSE IF loggers[auditLogger].db
            THEN [logging EXCEPT !.pc = "auditDB", !.self = auditLogger]
            ELSE respond(logging)

\* the miss branch of the handler: get counts the miss on its cache c, the
\* engine routes, and cache.set runs up to its await
RouteAndCache(r, rq, c) ==
    LET decision == route(engines[routerEngine], Texts[rq.message], now)
        value == [agent |-> decision.agent, confidence |-> decision.confidence,
                  reason |-> decision.reason, timestamp |-> dateNow(now),
                  ttl |-> ENTRY_TTL_SECONDS, hash |-> rq.hash]
        routed == [rq EXCEPT !.decision = decision, !.cached = FALSE,
                             !.value = value, !.engineUsed = routerEngine]
        counted == [caches EXCEPT ![c] = countMiss(@)]
    IN /\ caches' = [counted EXCEPT ![routingCache] = memorySet(@, rq.hash, value)]
       /\ populated' = {q \in populated : q.key # rq.hash}
                       \cup {[key |-> rq.hash, agent |-> decision.agent,
                              confidence |-> decision.confidence,
                              at |-> dateNow(now)]}
       /\ reqs' = [reqs EXCEPT ![r] =
                     IF caches[routingCache].kv THEN [routed EXCEPT !.pc = "kvPut"]
                     ELSE startLog(routed)]

\* what the history says a get at this moment has to find
expectation(key) ==
    IF \E q \in populated :
          q.key = key /\ dateNow(now) - q.at <= ENTRY_TTL_SECONDS * 1000
    THEN LET q == CHOOSE q \in populated : q.key = key
         IN << q.agent, q.confidence >>
    ELSE << >>

\* the request body is read; a missing or empty message is rejected, else the
\* message is hashed and routingCache.get runs up to its await
RouteBody(r) ==
    /\ reqs[r].pc = "body"
    /\ reqs[r].kind = "route"
    /\ LET rq == reqs[r]
           c == routingCache
       IN IF rq.message = 0 \/ Texts[rq.message] = << >>
          THEN /\ reqs' = [reqs EXCEPT ![r] = reject(rq)]
               /\ UNCHANGED << caches, populated >>
          ELSE LET key == generateHash(Texts[rq.message])
                   hashed == [rq EXCEPT !.hash = key, !.expect = expectation(key),
                                        !.hitTime = now,
                                        !.stale = hasKey(caches[c].cache, key)]
               IN IF memoryHit(caches[c], key, now)
                  THEN /\ caches' = [caches EXCEPT ![c] = countHit(@)]
                       /\ reqs' = [reqs EXCEPT ![r] =
                             startLog([hashed EXCEPT
                                          !.decision = valueAt(caches[c].cache, key),
                                          !.cached = TRUE, !.stale = FALSE,
                                          !.tier = "memory"])]
                       /\ UNCHANGED populated
                  ELSE IF caches[c].kv
                       THEN /\ reqs' = [reqs EXCEPT ![r] =
                                  [hashed EXCEPT !.pc = "kvGet", !.self = c]]
                            /\ UNCHANGED << caches, populated >>
                       ELSE RouteAndCache(r, hashed, c)
    /\ UNCHANGED << engines, routerEngine, routingCache, loggers, auditLogger,
                    isInitialized, env, store, kv, auditKV, auditDB, now, calls,
                    ret, prev >>

\* get returning the entry of the KV tier without restoring it to memory
KvGetDone_noRestore(r) ==
    /\ reqs[r].pc = "kvGet"
    /\ LET rq == reqs[r]
           c == rq.self
       IN \E readThrows \in mayThrow("cache") :
             IF ~readThrows /\ kvHit(rq.hash, now)
             THEN /\ caches' = [caches EXCEPT ![c] = countHit(@)]
                  /\ reqs' = [reqs EXCEPT ![r] =
                        startLog([rq EXCEPT !.decision = valueAt(kv, rq.hash),
                                            !.cached = TRUE, !.hitTime = now,
                                            !.stale = FALSE, !.tier = "kv"])]
                  /\ UNCHANGED populated
             ELSE RouteAndCache(r, [rq EXCEPT !.stale =
                                       @ \/ (~readThrows /\ hasKey(kv, rq.hash))], c)
    /\ UNCHANGED << engines, routerEngine, routingCache, loggers, auditLogger,
                    isInitialized, env, store, kv, auditKV, auditDB, now, calls,
                    ret, prev >>

\* the KV namespace answers the read of get: with its value for the key, or
\* the read throws, which get catches
KvGetDone(r) ==
    /\ reqs[r].pc = "kvGet"
    /\ LET rq == reqs[r]
           c == rq.self
       IN \E readThrows \in mayThrow("cache") :
             IF ~readThrows /\ kvHit(rq.hash, now)
             THEN /\ caches' = [caches EXCEPT ![c] =
                        countHit(memorySet(@, rq.hash, valueAt(kv, rq.hash)))]
                  /\ reqs' = [reqs EXCEPT ![r] =
                        startLog([rq EXCEPT !.decision = valueAt(kv, rq.hash),
                                            !.cached = TRUE, !.hitTime = now,
                                            !.stale = FALSE, !.tier = "kv"])]
                  /\ UNCHANGED populated
             ELSE RouteAndCache(r, [rq EXCEPT !.stale =
                                       @ \/ (~readThrows /\ hasKey(kv, rq.hash))], c)
    /\ UNCHANGED << engines, routerEngine, routingCache, loggers, auditLogger,
                    isInitialized, env, store, kv, auditKV, auditDB, now, calls,
                    ret, prev >>

\* the KV namespace answers the write of set: the value is stored, or the
\* write throws, which set catches
KvPutDone(r) ==
    /\ reqs[r].pc = "kvPut"
    /\ \E writeThrows \in mayThrow("cache") :
          kv' = IF writeThrows THEN kv
                ELSE {e \in kv : e.key # reqs[r].hash}
                     \cup {[key |-> reqs[r].hash, value |-> reqs[r].value,
                            putAt |-> dateNow(now)]}
    /\ reqs' = [reqs EXCEPT ![r] = startLog(reqs[r])]
    /\ UNCHANGED << engines, routerEngine, caches, routingCache, loggers,
                    auditLogger, isInitialized, env, store, auditKV, auditDB, now,
                    calls, ret, prev, populated >>

\* the request after a write of log ended: a failure is caught and logged
afterAuditWrite(rq, sink, writeThrows) ==
    [rq EXCEPT !.auditFailed = IF writeThrows THEN @ \cup {sink} ELSE @]

\* log without its try/catch around the KV put: the failure reaches the
\* catch of the handler, which answers 500
AuditKVDone_rethrows(r) ==
    /\ reqs[r].pc = "auditKV"
    /\ \E writeThrows \in mayThrow("audit") :
          /\ auditKV' = IF writeThrows THEN auditKV
                        ELSE Append(auditKV, reqs[r].entry)
          /\ LET rq == afterAuditWrite(reqs[r], "kv", writeThrows)
             IN reqs' = [reqs EXCEPT ![r] =
                           IF writeThrows
                           THEN [rq EXCEPT !.pc = "done", !.status = 500]
                           ELSE IF loggers[rq.self].db
                                THEN [rq EXCEPT !.pc = "auditDB"]
                                ELSE respond(rq)]
    /\ UNCHANGED << engines, routerEngine, caches, routingCache, loggers,
                    auditLogger, isInitialized, env, store, kv, auditDB, now, calls,
                    ret, prev, populated >>

\* the AUDIT_LOG namespace answers the put of log (or throws, caught)
AuditKVDone(r) ==
    /\ reqs[r].pc = "auditKV"
    /\ \E writeThrows \in mayThrow("audit") :
          /\ auditKV' = IF writeThrows THEN auditKV
                        ELSE Append(auditKV, reqs[r].entry)
          /\ LET rq == afterAuditWrite(reqs[r], "kv", writeThrows)
             IN reqs' = [reqs EXCEPT ![r] =
                           IF loggers[rq.self].db THEN [rq EXCEPT !.pc = "auditDB"]
                           ELSE respond(rq)]
    /\ UNCHANGED << engines, routerEngine, caches, routingCache, loggers,
                    auditLogger, isInitialized, env, store, kv, auditDB, now, calls,
                    ret, prev, populated >>

\* D1 answers the insert of log (or throws, caught); the handler responds
AuditDBDone(r) ==
    /\ reqs[r].pc = "auditDB"
    /\ \E writeThrows \in mayThrow("audit") :
          /\ auditDB' = IF writeThrows THEN auditDB
                        ELSE Append(auditDB, reqs[r].entry)
          /\ reqs' = [reqs EXCEPT ![r] =
                        respond(afterAuditWrite(reqs[r], "db", writeThrows))]
    /\ UNCHANGED << engines, routerEngine, caches, routingCache, loggers,
                    auditLogger, isInitialized, env, store, kv, auditKV, now, calls,
                    ret, prev, populated >>

\* POST /api/admin/clear-cache after initializeRouter: clearAll and resetStats
ClearCache(r) ==
    /\ reqs[r].pc = "body"
    /\ reqs[r].kind = "clear"
    /\ caches' = [caches EXCEPT ![routingCache] = resetStats(clearAll(@))]
    /\ populated' = {}
    /\ reqs' = [reqs EXCEPT ![r].pc = "done", ![r].status = 200]
    /\ UNCHANGED << engines, routerEngine, routingCache, loggers, auditLogger,
                    isInitialized, env, store, kv, auditKV, auditDB, now, calls,
                    ret, prev >>

\* the KV namespace drops a key whose expirationTtl has passed
KvExpire ==
    /\ \E e \in kv :
          /\ dateNow(now) - e.putAt >= CACHE_TTL_SECONDS * 1000
          /\ kv' = kv \ {e}
    /\ UNCHANGED << engines, routerEngine, caches, routingCache, loggers,
                    auditLogger, isInitialized, env, store, auditKV, auditDB, now,
                    reqs, calls, ret, prev, populated >>

\* an hour passes; no request stays in flight that long
Tick ==
    /\ now < MaxTime
    /\ \A r \in ReqIds : free(r)
    /\ now' = now + 1
    /\ UNCHANGED << engines, routerEngine, caches, routingCache, loggers,
                    auditLogger, isInitialized, env, store, kv, auditKV, auditDB,
                    reqs, calls, ret, prev, populated >>

Next ==
    \/ \E r \in ReqIds : Arrive(r)
    \/ \E r \in ReqIds : LoadAgentsDone(r)
    \/ \E r \in ReqIds : LoadSkillsDone(r)
    \/ \E r \in ReqIds : RouteBody(r)
    \/ \E r \in ReqIds : KvGetDone(r)
    \/ \E r \in ReqIds : KvPutDone(r)
    \/ \E r \in ReqIds : AuditKVDone(r)
    \/ \E r \in ReqIds : AuditDBDone(r)
    \/ \E r \in ReqIds : ClearCache(r)
    \/ KvExpire
    \/ Tick

Spec == Init /\ [][Next]_vars

\* the texts an earlier isolate of the worker may have routed
WarmTexts == {TextFixBug, TextFixBugLower}

\* the entry the handler of that isolate cached for a text (index.ts:130-137)
warmValue(text) ==
    LET decision == route(RouterEngine(FALSE, STATIC_AGENTS, STATIC_SKILL_FILES),
                          text, 0)
    IN [agent |-> decision.agent, confidence |-> decision.confidence,
        reason |-> decision.reason, timestamp |-> dateNow(0),
        ttl |-> ENTRY_TTL_SECONDS, hash |-> generateHash(text)]

\* a fresh isolate of a deployment with the ROUTING_CACHE binding, whose
\* namespace holds the entry an earlier isolate has just put for one text
InitWarmKV ==
    /\ engines = << >>
    /\ routerEngine = 0
    /\ caches = << >>
    /\ routingCache = 0
    /\ loggers = << >>
    /\ auditLogger = 0
    /\ isInitialized = FALSE
    /\ env \in {e \in Envs : e.cacheKV}
    /\ store \in Stores
    /\ \E text \in WarmTexts :
          /\ kv = {[key |-> generateHash(text), value |-> warmValue(text),
                    putAt |-> dateNow(0)]}
          /\ populated = {[key |-> generateHash(text),
                           agent |-> warmValue(text).agent,
                           confidence |-> warmValue(text).confidence,
                           at |-> dateNow(0)]}
    /\ auditKV = << >>
    /\ auditDB = << >>
    /\ now = 0
    /\ reqs = [r \in ReqIds |-> idleReq]
    /\ calls = 0
    /\ ret = [op |-> "none"]
    /\ prev = [op |-> "none"]

SpecWarmKV == InitWarmKV /\ [][Next]_vars

\* what the runtime and the bindings always do in the end: a handler that can
\* go on does, and a query or a write is answered; the cache read of get is
\* the call that may stay unanswered
Fairness ==
    \A r \in ReqIds :
       /\ WF_vars(LoadAgentsDone(r))
       /\ WF_vars(LoadSkillsDone(r))
       /\ WF_vars(RouteBody(r))
       /\ WF_vars(KvPutDone(r))
       /\ WF_vars(AuditKVDone(r))
       /\ WF_vars(AuditDBDone(r))
       /\ WF_vars(ClearCache(r))

SpecLive == Init /\ [][Next]_vars /\ Fairness

\* the same with the roles exchanged: every read is answered, while the put
\* of set and the two writes of log may stay unanswered
FairnessButWrites ==
    \A r \in ReqIds :
       /\ WF_vars(LoadAgentsDone(r))
       /\ WF_vars(LoadSkillsDone(r))
       /\ WF_vars(RouteBody(r))
       /\ WF_vars(KvGetDone(r))
       /\ WF_vars(ClearCache(r))

SpecWritesPending == Init /\ [][Next]_vars /\ FairnessButWrites

(***************************************************************************)
(* Properties of the engine                                                *)
(***************************************************************************)

enabledIds(registry) ==
    {registry.agents[i].id : i \in {j \in 1..Len(registry.agents) :
                                       registry.agents[j].enabled}}

\* C1: for every non-empty text and every registry content, the agent id
\* route returns is the id of an agent present and enabled in the registry
\* at the time of the call
C1_AgentIsEnabledInRegistry ==
    (ret.op = "route" /\ Texts[ret.message] # << >>)
        => ret.result.agent \in enabledIds(ret.registry)

\* C5: with zero enabled agents in the registry, route fails with a
\* configuration error for every text and returns no decision
C5_NoEnabledAgentsIsConfigurationError ==
    (ret.op = "route" /\ enabledIds(ret.registry) = {})
        => ret.outcome = "ConfigurationError"

C8_ConfidenceInUnitInterval ==
    /\ ret.op = "getConfidenceScore"
          => (0 <= ret.result /\ ret.result <= CONF_UNIT)
    /\ ret.op = "route"
          => (0 <= ret.result.confidence /\ ret.result.confidence <= 100)

\* the medium-confidence branch taken with the largest score: 0.6 + 0.35
C8_Witness ==
    /\ ret.op = "getConfidenceScore"
    /\ Len(ret.scores) = 2
    /\ ret.scores[1].score = 100 * SCORE_UNIT
    /\ ret.scores[2].score = 100 * SCORE_UNIT
    /\ ret.result = 950000

C11_LowConfidenceFallsBackToPlanning ==
    (ret.op = "route" /\ ret.result.confidence < 30)
        => ret.result.agent = FALLBACK_AGENT

\* C17: for a text with at least three keywords of one agent and fewer
\* keywords of every other agent, scoreMessage ranks that agent first with
\* a score above 40 on the scale of 0 to 100
C17_ThreeKeywordsScoreAbove40 ==
    ret.op = "scoreMessage"
        => \A i \in 1..Len(ret.result) :
              (/\ Len(ret.result[i].matches) >= 3
               /\ \A j \in 1..Len(ret.result) :
                     j # i => Len(ret.result[j].matches) < Len(ret.result[i].matches))
                 => /\ i = 1
                    /\ ret.result[1].score > 40 * SCORE_UNIT

\* the first agent of the list matched at least two keywords and no other
\* agent matched or scored anything
clearWinner(scores) ==
    /\ Len(scores) >= 1
    /\ \A i \in 1..Len(scores) : "matches" \in DOMAIN scores[i]
    /\ Len(scores[1].matches) >= 2
    /\ \A i \in 2..Len(scores) : scores[i].matches = << >> /\ scores[i].score = 0

\* C18: for the scores of a text with a clear winner, getConfidenceScore
\* returns a confidence above 0.6 and at most 1, and route reports a
\* confidence above 0.5 for the text
C18_ClearWinnerIsConfident ==
    /\ (ret.op = "getConfidenceScore" /\ clearWinner(ret.scores))
          => (ret.result > 600000 /\ ret.result <= CONF_UNIT)
    /\ (ret.op = "route" /\ clearWinner(Analysis[Texts[ret.message]].agentScores))
          => ret.result.confidence > 50

(***************************************************************************)
(* Properties of the worker                                                *)
(***************************************************************************)

\* the request has returned from routingCache.get
pastGet(rq) == rq.kind = "route" /\ rq.pc \in {"kvPut", "auditKV", "auditDB", "done"}

\* the request was answered with a routing decision
answered(rq) == rq.kind = "route" /\ rq.pc = "done" /\ rq.status = 200

\* the engine as constructed, before any load
builtInEngine == RouterEngine(FALSE, STATIC_AGENTS, STATIC_SKILL_FILES)

\* C2: once a routing call for a text has populated the cache, a later
\* routing call for the same text made within the TTL, with no clear in
\* between, is answered with cached = true and with the agent and the
\* confidence the first call cached
C2_SecondCallWithinTtlIsCached ==
    \A r \in ReqIds :
       LET rq == reqs[r]
       IN (pastGet(rq) /\ rq.expect # << >>)
             => /\ rq.cached
                /\ rq.decision.agent = rq.expect[1]
                /\ rq.decision.confidence = rq.expect[2]
                /\ rq.pc = "done"
                      => /\ rq.status = 200
                         /\ rq.response.cached
                         /\ rq.response.agent = rq.expect[1]
                         /\ rq.response.confidence = rq.expect[2]

\* a second call answered from the cache when the entry is exactly one TTL old
C2_Witness ==
    \E r \in ReqIds :
       /\ answered(reqs[r])
       /\ reqs[r].expect # << >>
       /\ reqs[r].response.cached
       /\ dateNow(reqs[r].hitTime) - reqs[r].decision.timestamp
             = ENTRY_TTL_SECONDS * 1000

\* C3: get never returns, from the memory tier or from the KV tier, an entry
\* older than its TTL; a routing call that finds only such an entry answers
\* with cached = false and a decision the engine computed anew
C3_ExpiredEntryNeverServed ==
    \A r \in ReqIds :
       LET rq == reqs[r]
       IN /\ (pastGet(rq) /\ rq.cached)
                => dateNow(rq.hitTime) - rq.decision.timestamp
                      <= rq.decision.ttl * 1000
          /\ (pastGet(rq) /\ rq.stale)
                => /\ ~rq.cached
                   /\ "complexity" \in DOMAIN rq.decision
                   /\ rq.decision.timestamp = rq.hitTime
                   /\ rq.pc = "done" => (rq.status = 200 /\ ~rq.response.cached)

\* with a KV tier: the call found an expired entry and answered afresh
C3_Witness ==
    \E r \in ReqIds :
       /\ answered(reqs[r])
       /\ reqs[r].stale
       /\ env.cacheKV
       /\ ~reqs[r].response.cached
       /\ reqs[r].response.complexity = "simple"

\* C4: a request whose text is missing, empty or only whitespace is rejected
\* as invalid input (and nothing is routed, cached or audited for it)
C4_BlankTextIsRejected ==
    \A r \in ReqIds :
       (/\ reqs[r].kind = "route"
        /\ reqs[r].pc = "done"
        /\ (reqs[r].message = 0 \/ isBlank(Texts[reqs[r].message])))
          => reqs[r].status = 400

\* C6: when a load from the database throws at startup, initializeRouter
\* still completes, a routing call with a non-empty message is answered with
\* status 200, and a decision computed on an engine whose agents (skill
\* files) load threw is the one the built-in agents (skill files) give
C6_StoreFailureFallsBackToBuiltIn ==
    \A r \in ReqIds :
       LET rq == reqs[r]
       IN /\ rq.pc \notin {"idle", "loadAgents", "loadSkills"} => isInitialized
          /\ (/\ rq.kind = "route"
              /\ rq.pc = "done"
              /\ rq.message # 0
              /\ Texts[rq.message] # << >>) => rq.status = 200
          /\ (answered(rq) /\ ~rq.cached)
                => LET e == engines[rq.engineUsed]
                       builtIn == route(builtInEngine, Texts[rq.message], 0)
                   IN /\ e.agentsLoad = "threw"
                         => /\ e.agents = builtInEngine.agents
                            /\ rq.response.agent = builtIn.agent
                            /\ rq.response.estimatedCost = builtIn.estimatedCost
                      /\ e.skillsLoad = "threw"
                         => /\ e.skillFiles = builtInEngine.skillFiles
                            /\ rq.response.skillFilesUsed = builtIn.skillFilesUsed

\* both loads threw and the call was answered from the built-in set
C6_Witness ==
    \E r \in ReqIds :
       /\ answered(reqs[r])
       /\ ~reqs[r].cached
       /\ Texts[reqs[r].message] = TextFixBug
       /\ engines[reqs[r].engineUsed].agentsLoad = "threw"
       /\ engines[reqs[r].engineUsed].skillsLoad = "threw"
       /\ reqs[r].response.agent = "codegen"

\* C9: the complexity of every routing response, computed or served from
\* the cache, is one of simple, moderate, complex
C9_ComplexityIsALevel ==
    \A r \in ReqIds :
       answered(reqs[r])
          => reqs[r].response.complexity \in {"simple", "moderate", "complex"}

\* C12: a failed audit write, to the KV namespace, to D1 or to both, never
\* fails the routing call: the call goes on and is answered with status 200
\* and with the agent, the confidence and the cached flag it had before the
\* audit writes
C12_AuditFailureIsNotFatal ==
    \A r \in ReqIds :
       LET rq == reqs[r]
       IN (rq.kind = "route" /\ rq.auditFailed # {})
             => /\ rq.pc \in {"auditDB", "done"}
                /\ rq.pc = "done"
                      => /\ rq.status = 200
                         /\ rq.response.agent = rq.decision.agent
                         /\ rq.response.confidence = rq.decision.confidence
                         /\ rq.response.cached = rq.cached

\* both audit writes of a call served from the cache failed
C12_Witness ==
    \E r \in ReqIds :
       /\ answered(reqs[r])
       /\ reqs[r].auditFailed = {"kv", "db"}
       /\ reqs[r].response.cached
       /\ auditKV = << >>
       /\ auditDB = << >>

\* C13: a routing call that waits for the KV read of get is answered in
\* the end, also when the KV namespace never answers the read
C13_CacheReadIsBounded ==
    \A r \in ReqIds : (reqs[r].pc = "kvGet") ~> (reqs[r].pc = "done")

\* C14: two routing calls for one text that both missed the cache are
\* answered with the same agent and confidence, and once both are answered
\* the memory tier holds exactly one entry for the key, the one the later
\* set wrote, with that agent and confidence; the KV tier holds at most one
\* entry for the key, with that agent and confidence
C14_ConcurrentMissesAgree ==
    \A r, q \in ReqIds :
       (/\ r # q
        /\ answered(reqs[r]) /\ ~reqs[r].cached
        /\ answered(reqs[q]) /\ ~reqs[q].cached
        /\ reqs[r].message = reqs[q].message
        /\ \E p \in populated : p.key = reqs[r].hash)
          => LET key == reqs[r].hash
                 held == {e \in caches[routingCache].cache : e.key = key}
                 last == CHOOSE p \in populated : p.key = key
             IN /\ reqs[r].response.agent = reqs[q].response.agent
                /\ reqs[r].response.confidence = reqs[q].response.confidence
                /\ Cardinality(held) = 1
                /\ \A e \in held :
                      /\ e.value.agent = reqs[r].response.agent
                      /\ e.value.confidence = reqs[r].response.confidence
                      /\ e.value.timestamp = last.at
                /\ Cardinality({e \in kv : e.key = key}) <= 1
                /\ \A e \in kv :
                      e.key = key
                         => /\ e.value.agent = reqs[r].response.agent
                            /\ e.value.confidence = reqs[r].response.confidence

\* two calls in flight at once for "Fix the login bug", both answered afresh,
\* on a deployment with a KV tier
C14_Witness ==
    /\ answered(reqs[1]) /\ ~reqs[1].response.cached
    /\ answered(reqs[2]) /\ ~reqs[2].response.cached
    /\ Texts[reqs[1].message] = TextFixBug
    /\ Texts[reqs[2].message] = TextFixBug
    /\ reqs[1].startTime = reqs[2].startTime
    /\ env.cacheKV
    /\ hasKey(kv, reqs[1].hash)

\* the audit records written so far, to the KV namespace and to D1
auditRecords ==
    {auditKV[i] : i \in 1..Len(auditKV)} \cup {auditDB[i] : i \in 1..Len(auditDB)}

\* C15: every audit record, of a call answered afresh or from the cache,
\* carries the complexity level the engine computes for the text of the call
\* (with the agent, the confidence and the cost of the decision)
C15_AuditRecordCarriesDecision ==
    \A e \in auditRecords :
       e.complexity = Analysis[e.message].complexity.level

\* the sum of a counter over the cache objects
RECURSIVE statsTotal(_, _, _)
statsTotal(cs, field, n) ==
    IF n = 0 THEN 0 ELSE cs[n].stats[field] + statsTotal(cs, field, n - 1)

\* getStats of every cache object is consistent
StatsConsistent ==
    \A i \in 1..Len(caches) :
       LET stats == caches[i].stats
       IN /\ stats.totalRequests = stats.hits + stats.misses
          /\ stats.hitRate = IF stats.totalRequests = 0 THEN << 0, 1 >>
                             ELSE << stats.hits, stats.totalRequests >>

\* in this step the get of request r returns
getReturns(r) ==
    /\ reqs[r].kind = "route"
    /\ reqs[r].pc \in {"body", "kvGet"}
    /\ \/ reqs'[r].pc \in {"kvPut", "auditKV", "auditDB"}
       \/ reqs'[r].pc = "done" /\ reqs'[r].status = 200

\* in this step resetStats runs
statsReset == \E r \in ReqIds : reqs[r].kind = "clear" /\ reqs[r].pc = "body"
                                   /\ reqs'[r].pc = "done"

\* a step that is not a reset adds one to the hits when a get returns an
\* entry, one to the misses when a get returns none, and nothing otherwise
GetCountsOnce ==
    LET hit == \E r \in ReqIds : getReturns(r) /\ reqs'[r].cached
        miss == \E r \in ReqIds : getReturns(r) /\ ~reqs'[r].cached
    IN IF statsReset
       THEN caches'[routingCache].stats = emptyStats
       ELSE /\ statsTotal(caches', "hits", Len(caches'))
                  = statsTotal(caches, "hits", Len(caches)) + (IF hit THEN 1 ELSE 0)
            /\ statsTotal(caches', "misses", Len(caches'))
                  = statsTotal(caches, "misses", Len(caches)) + (IF miss THEN 1 ELSE 0)

\* C16: after any sequence of get, set and resetStats, every get has added
\* one to exactly one of hits and misses (a hit of either tier to hits; an
\* absent, expired or failed read to misses), totalRequests = hits + misses,
\* and hitRate = hits / totalRequests, 0 without requests
C16_StatsCountEveryGet == []StatsConsistent /\ [][GetCountsOnce]_vars

\* one miss and then one hit: hitRate 1/2
C16_Witness ==
    \E i \in 1..Len(caches) :
       /\ caches[i].stats.hits = 1
       /\ caches[i].stats.misses = 1
       /\ caches[i].stats.hitRate = << 1, 2 >>

(***************************************************************************)
(* The routing scenarios, on an engine with the built-in registry          *)
(***************************************************************************)
\* the engine returned a decision for this text with the built-in registry
routedBuiltIn(text) ==
    /\ ret.op = "route"
    /\ Texts[ret.message] = text
    /\ ret.registry = registryOf(builtInEngine)

\* C19: routing "Design a secure payment API with caching" with the built-in
\* registry returns the security agent, or at least ranks it first in the
\* score list, and reports a complexity of moderate or complex
C19_SecureApiIsSecurityAndNotSimple ==
    routedBuiltIn(TextSecureApi)
        => /\ \/ ret.result.agent = "security"
              \/ Analysis[TextSecureApi].agentScores[1].agent = "security"
           /\ ret.result.complexity \in {"moderate", "complex"}

\* C20: routing "Fix the login bug" with the built-in registry returns the
\* codegen agent, matched keywords that include "fix" and "bug", and the
\* complexity simple
C20_FixBugIsCodegenAndSimple ==
    routedBuiltIn(TextFixBug)
        => /\ ret.result.agent = "codegen"
           /\ <<"f", "i", "x">> \in Range(ret.result.matchedKeywords)
           /\ <<"b", "u", "g">> \in Range(ret.result.matchedKeywords)
           /\ ret.result.complexity = "simple"

C20_Witness ==
    /\ routedBuiltIn(TextFixBug)
    /\ ret.result.agent = "codegen"
    /\ Len(ret.result.matchedKeywords) = 2

(***************************************************************************)
(* The decision of route: cost, override and matched keywords              *)
(***************************************************************************)
\* the engine returned a decision for a non-empty text
routed == ret.op = "route" /\ Texts[ret.message] # << >>

\* the AgentScore list route worked on
scoresOfRet == Analysis[Texts[ret.message]].agentScores

\* the AgentScore of an agent in a list
scoreOf(scores, agent) == scores[CHOOSE i \in 1..Len(scores) : scores[i].agent = agent]

\* the agent of the decision has a price configured in the registry
priced ==
    /\ MapHas(ret.registry.agents, ret.result.agent)
    /\ MapGet(ret.registry.agents, ret.result.agent).costPerToken > 0

\* C21: for a non-empty text routed to an agent with a configured price, the
\* estimatedCost of the decision, rounded to two decimals, is greater than 0
\* and less than 100
C21_EstimatedCostIsPositive ==
    (routed /\ priced)
        => (ret.result.estimatedCost > 0 /\ ret.result.estimatedCost < 100 * 100)

\* C22 as stated: route returns planning instead of the top-scoring agent
\* exactly when the complexity is complex, the top-scoring agent is not
\* planning and the score of planning is greater than 20; otherwise it returns
\* the top-scoring agent
C22_OverrideAboveBar ==
    routed
        => IF /\ Analysis[Texts[ret.message]].complexity.level = "complex"
              /\ scoresOfRet[1].agent # "planning"
              /\ scoreOf(scoresOfRet, "planning").score > 20 * SCORE_UNIT
           THEN ret.result.agent = "planning"
           ELSE ret.result.agent = scoresOfRet[1].agent

\* C22 as amended: the same with a score of planning of at least 20
C22_OverrideAtOrAboveBar ==
    routed
        => IF /\ Analysis[Texts[ret.message]].complexity.level = "complex"
              /\ scoresOfRet[1].agent # "planning"
              /\ scoreOf(scoresOfRet, "planning").score >= 20 * SCORE_UNIT
           THEN ret.result.agent = "planning"
           ELSE ret.result.agent = scoresOfRet[1].agent

\* a complex text with codegen on top and planning exactly at the bar was
\* routed to planning
C22_Witness ==
    /\ routed
    /\ Analysis[Texts[ret.message]].complexity.level = "complex"
    /\ scoresOfRet[1].agent = "codegen"
    /\ scoreOf(scoresOfRet, "planning").score = 20 * SCORE_UNIT
    /\ ret.result.agent = "planning"

\* C23: the matched keywords of a decision are at most 5 and each of them is
\* a keyword match recorded in the AgentScore of the agent the decision
\* returns, also when the complexity override selected planning
C23_KeywordsOfSelectedAgent ==
    routed
        => /\ Len(ret.result.matchedKeywords) <= 5
           /\ \A k \in Range(ret.result.matchedKeywords) :
                 \E m \in Range(scoreOf(scoresOfRet, ret.result.agent).matches) :
                    m.keyword = k

(***************************************************************************)
(* The writes of a routing call                                            *)
(***************************************************************************)
\* C24: the durable cache write and the audit writes are fire-and-forget: a
\* routing call whose put of set or whose write of log is pending delivers
\* its response, whether or not that write ever completes
C24_WritesAreFireAndForget ==
    \A r \in ReqIds :
       (reqs[r].pc \in {"kvPut", "auditKV", "auditDB"}) ~> (reqs[r].pc = "done")

(***************************************************************************)
(* The registry after a load                                               *)
(***************************************************************************)
idsOf(items) == {items[i].id : i \in 1..Len(items)}

\* C25: after a load from the store that failed, on a query that threw or on
\* a malformed row after valid rows, the registry of the engine holds exactly
\* the built-in agents (skill files): nothing of the failed load is merged
C25_FailedLoadLeavesBuiltIn ==
    \A i \in 1..Len(engines) :
       /\ engines[i].agentsLoad \in {"threw", "malformed"}
             => engines[i].agents = builtInEngine.agents
       /\ engines[i].skillsLoad \in {"threw", "malformed"}
             => engines[i].skillFiles = builtInEngine.skillFiles

\* C26: after a load from the store that succeeded, the agents the registry
\* lists are exactly the enabled agents the store returned
C26_LoadSwapsRegistry ==
    (engine.db /\ engine.agentsLoad = "merged")
        => idsOf(getAgents(engine)) = idsOf(store.agentRows)

(***************************************************************************)
(* initializeRouter                                                        *)
(***************************************************************************)
\* C30: the construct-and-load body of initializeRouter runs at most once:
\* the globals routerEngine, routingCache and auditLogger are assigned once
\* and never replaced, however the first requests interleave
C30_GlobalsAssignedOnce ==
    [][/\ routerEngine # 0 => routerEngine' = routerEngine
       /\ routingCache # 0 => routingCache' = routingCache
       /\ auditLogger # 0 => auditLogger' = auditLogger]_vars

(***************************************************************************)
(* The two tiers of the cache, on an isolate that finds an entry in KV     *)
(***************************************************************************)
\* the step takes request r out of get with a miss: the engine routes
missReported(r) ==
    /\ reqs[r].kind = "route"
    /\ reqs[r].pc \in {"body", "kvGet"}
    /\ reqs'[r].pc \notin {"body", "kvGet"}
    /\ reqs'[r].status # 400
    /\ ~reqs'[r].cached

\* the step is the answer of the KV namespace to the read of request r, on
\* a deployment whose reads of the namespace do not throw, and the namespace
\* holds an unexpired entry for the key
kvAnswersEntry(r) ==
    /\ reqs[r].pc = "kvGet"
    /\ reqs'[r].pc # "kvGet"
    /\ env.flaky # "cache"
    /\ kvHit(reqs[r].hash, now)

\* the step is the start of get for request r, and the memory tier holds an
\* unexpired entry for the key of its text
getFindsMemory(r) ==
    /\ reqs[r].kind = "route"
    /\ reqs[r].pc = "body"
    /\ reqs'[r].pc # "body"
    /\ reqs[r].message # 0
    /\ Texts[reqs[r].message] # << >>
    /\ memoryHit(caches[routingCache], generateHash(Texts[reqs[r].message]), now)

\* C27: with a KV tier, get reports a miss only after the read of the KV
\* tier; when that read finds an unexpired entry, get returns it and stores
\* it in the memory tier; and a get that finds an unexpired entry in the
\* memory tier returns it without reading the KV tier
C27_DurableTierBacksFastTier ==
    [][\A r \in ReqIds :
          /\ (missReported(r) /\ caches[routingCache].kv) => reqs[r].pc = "kvGet"
          /\ kvAnswersEntry(r)
                => /\ reqs'[r].cached
                   /\ reqs'[r].decision = valueAt(kv, reqs[r].hash)
                   /\ memoryHit(caches'[reqs[r].self], reqs[r].hash, now)
                   /\ valueAt(caches'[reqs[r].self].cache, reqs[r].hash)
                         = valueAt(kv, reqs[r].hash)
          /\ getFindsMemory(r)
                => /\ reqs'[r].pc # "kvGet"
                   /\ reqs'[r].cached
                   /\ reqs'[r].tier = "memory"
                   /\ reqs'[r].decision
                         = valueAt(caches[routingCache].cache,
                                   generateHash(Texts[reqs[r].message]))]_vars

\* two gets and no set on the cache of the isolate: the first was answered
\* by the KV tier and the second by the memory tier it restored
C27_Witness ==
    \E r \in ReqIds :
       /\ answered(reqs[r])
       /\ reqs[r].tier = "memory"
       /\ routingCache # 0
       /\ caches[routingCache].stats.hits = 2
       /\ caches[routingCache].stats.misses = 0

\* the normalized form of an input text
normalized(text) == toLowerCase(text)

\* C28: the key the handler computes for a text equals the key under which
\* a text with the same normalized form was cached, so that on a deployment
\* without faults a call within the TTL of that entry is served from cache
C28_KeyOfNormalizedText ==
    \A r \in ReqIds : \A q \in populated :
       (/\ pastGet(reqs[r])
        /\ reqs[r].status # 400
        /\ normalized(Texts[q.key]) = normalized(Texts[reqs[r].message]))
          => /\ reqs[r].hash = q.key
             /\ (/\ env.flaky = "none"
                 /\ q.at < dateNow(reqs[r].startTime)
                 /\ dateNow(reqs[r].hitTime) - q.at <= ENTRY_TTL_SECONDS * 1000)
                   => reqs[r].cached

\* C29: after clear-cache, a get for a key that no call has set since finds
\* nothing, with or without a KV tier: the routing call reports cached = false
C29_ClearedKeyIsAbsent ==
    \A r \in ReqIds :
       (/\ pastGet(reqs[r])
        /\ reqs[r].status # 400
        /\ reqs[r].expect = << >>
        /\ ~\E q \in populated : q.key = reqs[r].hash)
          => /\ ~reqs[r].cached
             /\ reqs[r].pc = "done" => ~reqs[r].response.cached

=============================================================================
